---- MODULE Spec2Model ----
(***************************************************************************)
(* A model of year_in_review.py: the TMDB catalog client, the Content      *)
(* objects (Movie, SeriesEpisode), the loop of main() that builds the list *)
(* of WatchedContent, and the report functions main() calls afterwards.    *)
(*                                                                         *)
(* Python values: an attribute that holds None is None == <<>>, one that   *)
(* holds a value v is Some(v) == <<v>>.  An object is a record of its      *)
(* attributes, so DOMAIN obj is the set of attributes the object has.  A   *)
(* dict is the sequence of its <<key, value>> items in insertion order.    *)
(* A float that is a quotient is kept exact as <<numerator, denominator>>. *)
(***************************************************************************)
EXTENDS Integers, Sequences, FiniteSets, TLC

VARIABLES
    watching_habits_raw,  \* main: the records loaded from the log
    idx,                  \* main: number of records the for loop has consumed
    c,                    \* main: the Content built for the last record
    calls,                \* the catalog responses received while building c
    watched_content,      \* main: the list of WatchedContent
    diagnostics,          \* the "There's an error with ..." lines printed
    out,                  \* report name -> what the report printed
    pc,                   \* position in main
    exc                   \* the exception that ended the run, "none" if none

vars == <<watching_habits_raw, idx, c, calls, watched_content, diagnostics, out, pc, exc>>

\* ---------------------------------------------------------------- constants
STATUS_CODE_OK == 200
MAX_CAST == 15
MAX_DIRECTORS == 2
TOP_N == 20
MIN_THRESHOLD == 5
MIN_THRESHOLD_FOR_DIRECTORS == 2

\* Longest log the model loads.
MaxLog == 5

None == <<>>
Some(v) == <<v>>

\* The status codes the catalog answers with.
StatusCodes == {STATUS_CODE_OK, 404}

\* The places of a Content construction that request the catalog.
CallSites == {"_get_tmdb_id", "_get_content_info", "_get_directors", "_get_release_date"}

\* ------------------------------------------------------------------ catalog
Actor(i) == "actor" \o ToString(i)

\* The bodies the catalog answers with, by endpoint.  The movie's cast has 16
\* entries (one more than MAX_CAST), its crew three Director credits after a
\* Producer; the show's cast lists actor16 twice and shares actor1 with the
\* movie, so that movie and episode together carry 22 distinct actors.  Show Two
\* declares no episode run time, and episode 3 of Show One has no air_date.
Catalog ==
    ("/find/tt1" :> [movie_results |-> << [id |-> 603] >>, tv_episode_results |-> <<>>])
 @@ ("/find/tt2" :> [movie_results |-> <<>>,
                     tv_episode_results |-> << [id |-> 63056, show_id |-> 1399,
                                                season_number |-> 1, episode_number |-> 2] >>])
 @@ ("/find/tt0" :> [movie_results |-> <<>>, tv_episode_results |-> <<>>])
 @@ ("/movie/603" :>
        [original_title |-> "Movie One",
         genres |-> << [name |-> "Drama"], [name |-> "War"] >>,
         credits |-> [cast |-> [i \in 1..16 |-> [name |-> Actor(i)]],
                      crew |-> << [name |-> "P1", job |-> "Producer"],
                                  [name |-> "D1", job |-> "Director"],
                                  [name |-> "D2", job |-> "Director"],
                                  [name |-> "D3", job |-> "Director"] >>],
         production_companies |-> << [name |-> "Studio A"], [name |-> "Studio B"] >>,
         release_date |-> <<1999, 3, 31>>,
         runtime |-> 90])
 @@ ("/tv/1399" :>
        [original_name |-> "Show One",
         genres |-> << [name |-> "Drama"], [name |-> "Comedy"] >>,
         credits |-> [cast |-> << [name |-> Actor(1)] >>
                               \o [i \in 1..7 |-> [name |-> Actor(15 + i)]]
                               \o << [name |-> Actor(16)] >>,
                      crew |-> << [name |-> "D9", job |-> "Director"] >>],
         production_companies |-> << [name |-> "Studio B"] >>,
         episode_run_time |-> <<30, 61>>])
 @@ ("/tv/1399/season/1/episode/2" :>
        [credits |-> [crew |-> << [name |-> "W1", job |-> "Writer"],
                                  [name |-> "D2", job |-> "Director"] >>],
         air_date |-> <<2011, 4, 24>>])
 @@ ("/find/tt3" :> [movie_results |-> <<>>,
                     tv_episode_results |-> << [id |-> 70001, show_id |-> 1400,
                                                season_number |-> 1, episode_number |-> 1] >>])
 @@ ("/find/tt4" :> [movie_results |-> <<>>,
                     tv_episode_results |-> << [id |-> 63057, show_id |-> 1399,
                                                season_number |-> 1, episode_number |-> 3] >>])
 @@ ("/tv/1400" :>
        [original_name |-> "Show Two",
         genres |-> << [name |-> "Comedy"] >>,
         credits |-> [cast |-> << [name |-> Actor(1)] >>,
                      crew |-> << [name |-> "D9", job |-> "Director"] >>],
         production_companies |-> << [name |-> "Studio A"] >>,
         episode_run_time |-> <<>>])
 @@ ("/tv/1400/season/1/episode/1" :>
        [credits |-> [crew |-> << [name |-> "D1", job |-> "Director"] >>],
         air_date |-> <<2015, 1, 9>>])
 @@ ("/tv/1399/season/1/episode/3" :>
        [credits |-> [crew |-> << [name |-> "D2", job |-> "Director"] >>]])

\* The records a log is made of.  Date is the MM/DD/YYYY string split at "/".
Records ==
    { [Date |-> <<3, 4, 2019>>, MovieOrSeries |-> "Movie", Name |-> "Movie One",
       Platform |-> "Netflix", Rating |-> 8, IMDB_ID |-> "tt1"],
      [Date |-> <<4, 7, 2019>>, MovieOrSeries |-> "Series", Name |-> "Show One",
       Platform |-> "HBO", Rating |-> 10, IMDB_ID |-> "tt2"],
      [Date |-> <<12, 31, 2019>>, MovieOrSeries |-> "Movie", Name |-> "Lost Film",
       Platform |-> "Netflix", Rating |-> 5, IMDB_ID |-> "tt0"],
      [Date |-> <<3, 4, 2019>>, MovieOrSeries |-> "Series", Name |-> "Movie One",
       Platform |-> "HBO", Rating |-> 7, IMDB_ID |-> "tt1"] }

Logs == UNION { [1..n -> Records] : n \in 0..MaxLog }

\* Records of further kinds: an episode of the show that declares no episode run
\* time, an episode whose detail has no air_date, and a record whose kind is
\* neither "Movie" nor "Series".
WideRecords ==
    Records \cup
    { [Date |-> <<5, 6, 2019>>, MovieOrSeries |-> "Series", Name |-> "Show Two",
       Platform |-> "HBO", Rating |-> 6, IMDB_ID |-> "tt3"],
      [Date |-> <<5, 7, 2019>>, MovieOrSeries |-> "Series", Name |-> "Show One",
       Platform |-> "HBO", Rating |-> 9, IMDB_ID |-> "tt4"],
      [Date |-> <<6, 1, 2019>>, MovieOrSeries |-> "movie", Name |-> "Show One",
       Platform |-> "Prime", Rating |-> 4, IMDB_ID |-> "tt2"] }

\* Longest log of such records the model loads.
MaxWideLog == 3

WideLogs == UNION { [1..n -> WideRecords] : n \in 0..MaxWideLog }

\* ----------------------------------------------------------- catalog client
\* process_API_response: TRUE when it raises FailedAPIRequest.
process_API_response(response, expected_status_code) ==
    response.status_code # expected_status_code

\* requests.get: the response of the catalog to an endpoint.  The status of a
\* known endpoint is the one drawn for the request, an unknown endpoint is a 404.
requests_get(endpoint, status) ==
    IF endpoint \in DOMAIN Catalog
    THEN [url |-> endpoint, status_code |-> status, json |-> Catalog[endpoint]]
    ELSE [url |-> endpoint, status_code |-> 404, json |-> None]

get_info_from_imdb_id(imdb_id, status) ==
    LET response == requests_get("/find/" \o imdb_id, status)
    IN  [raised |-> process_API_response(response, STATUS_CODE_OK), response |-> response]

get_movie_info(movie_id, status) ==
    LET response == requests_get("/movie/" \o movie_id, status)
    IN  [raised |-> process_API_response(response, STATUS_CODE_OK), response |-> response]

get_show_info(show_id, status) ==
    LET response == requests_get("/tv/" \o show_id, status)
    IN  [raised |-> process_API_response(response, STATUS_CODE_OK), response |-> response]

\* get_episode_info with season and episode in each other's place in the endpoint.
get_episode_info_swapped(show_id, season, episode, status) ==
    LET response == requests_get("/tv/" \o show_id \o "/season/" \o episode
                                 \o "/episode/" \o season, status)
    IN  [raised |-> process_API_response(response, STATUS_CODE_OK), response |-> response]

get_episode_info(show_id, season, episode, status) ==
    LET response == requests_get("/tv/" \o show_id \o "/season/" \o season
                                 \o "/episode/" \o episode, status)
    IN  [raised |-> process_API_response(response, STATUS_CODE_OK), response |-> response]

\* ------------------------------------------------------------------ Content
\* list[:n]
Take(s, n) == SubSeq(s, 1, IF Len(s) < n THEN Len(s) ELSE n)

_get_genres(content_info) ==
    [i \in 1..Len(content_info.genres) |-> content_info.genres[i].name]

_get_actors(content_info) ==
    LET cast == Take(content_info.credits.cast, MAX_CAST)
    IN  [i \in 1..Len(cast) |-> cast[i].name]

_get_production_companies(content_info) ==
    [i \in 1..Len(content_info.production_companies) |->
        content_info.production_companies[i].name]

\* The loop shared by Movie._get_directors and SeriesEpisode._get_directors.
IsDirector(crew) == crew.job = "Director"

\* The loop with the cap applied to the crew, before the filter.
DirectorsOf_cap_first(content_info) ==
    LET picked == SelectSeq(Take(content_info.credits.crew, MAX_DIRECTORS), IsDirector)
    IN  [i \in 1..Len(picked) |-> picked[i].name]

DirectorsOf(content_info) ==
    LET picked == SelectSeq(content_info.credits.crew, IsDirector)
    IN  Take([i \in 1..Len(picked) |-> picked[i].name], MAX_DIRECTORS)

\* datetime(year, month, day)
datetime(year, month, day) == [year |-> year, month |-> month, day |-> day]

\* int(sum(l) / len(l)) for a list of non-negative integers.
RECURSIVE SumSeq(_)
SumSeq(s) == IF s = <<>> THEN 0 ELSE Head(s) + SumSeq(Tail(s))

\* The attributes the else branch of Content.__init__ sets.
EmptyState(is_movie) ==
    [title |-> None, genres |-> None, is_movie |-> is_movie, is_series |-> ~is_movie,
     actors |-> None, directors |-> None, pruction_companies |-> None,
     release_date |-> None, runtime |-> None]

\* if self.tmdb_id: neither None nor the empty string.
Truthy(tmdb_id) == tmdb_id # None /\ tmdb_id # Some("")

\* Movie._get_tmdb_id returning str() of the None it found.
Movie_get_tmdb_id_str(movie_info) ==
    IF Len(movie_info) = 0 THEN Some("None") ELSE Some(ToString(movie_info[1].id))

\* Movie._get_tmdb_id, from the movie_results of the response.
Movie_get_tmdb_id(movie_info) ==
    IF Len(movie_info) = 0 THEN None ELSE Some(ToString(movie_info[1].id))

\* SeriesEpisode._get_tmdb_id, from the tv_episode_results of the response: the
\* id it returns and the attributes show_id, season and episode it sets.
SeriesEpisode_get_tmdb_id(episode_info) ==
    IF Len(episode_info) = 0
    THEN [show_id |-> None, season |-> None, episode |-> None, tmdb_id |-> None]
    ELSE [show_id |-> Some(ToString(episode_info[1].show_id)),
          season |-> Some(ToString(episode_info[1].season_number)),
          episode |-> Some(ToString(episode_info[1].episode_number)),
          tmdb_id |-> Some(ToString(episode_info[1].id))]

\* Movie._get_release_date and SeriesEpisode._get_release_date: the "YYYY-MM-DD"
\* string split at "-".
ParseDate(ymd) == datetime(ymd[1], ymd[2], ymd[3])

Movie_get_runtime(content_info) == content_info.runtime

\* SeriesEpisode._get_runtime, of a non-empty list.
SeriesEpisode_get_runtime(content_info) ==
    SumSeq(content_info.episode_run_time) \div Len(content_info.episode_run_time)

\* Movie(requester, imdb_id): the exception raised if any, the responses
\* received, and the object constructed.
Movie(imdb_id, status) ==
    LET find == get_info_from_imdb_id(imdb_id, status["_get_tmdb_id"])
        tmdb_id == Movie_get_tmdb_id(find.response.json.movie_results)
        info == get_movie_info(tmdb_id[1], status["_get_content_info"])
        content_info == info.response.json
    IN  IF find.raised
        THEN [exc |-> "FailedAPIRequest", calls |-> <<find.response>>, obj |-> None]
        ELSE IF ~Truthy(tmdb_id)
        THEN [exc |-> "none", calls |-> <<find.response>>,
              obj |-> [tmdb_id |-> tmdb_id] @@ EmptyState(TRUE)]
        ELSE IF info.raised
        THEN [exc |-> "FailedAPIRequest", calls |-> <<find.response, info.response>>,
              obj |-> None]
        ELSE [exc |-> "none",
              calls |-> <<find.response, info.response>>,
              obj |-> [tmdb_id |-> tmdb_id,
                       title |-> Some(content_info.original_title),
                       genres |-> Some(_get_genres(content_info)),
                       is_movie |-> TRUE,
                       is_series |-> FALSE,
                       actors |-> Some(_get_actors(content_info)),
                       directors |-> Some(DirectorsOf(content_info)),
                       production_companies |-> Some(_get_production_companies(content_info)),
                       release_date |-> Some(ParseDate(content_info.release_date)),
                       runtime |-> Some(Movie_get_runtime(content_info))]]

\* SeriesEpisode(requester, imdb_id): the exception raised if any, the responses
\* received, and the object constructed.
SeriesEpisode(imdb_id, status) ==
    LET find == get_info_from_imdb_id(imdb_id, status["_get_tmdb_id"])
        ids == SeriesEpisode_get_tmdb_id(find.response.json.tv_episode_results)
        info == get_show_info(ids.show_id[1], status["_get_content_info"])
        content_info == info.response.json
        dirs == get_episode_info(ids.show_id[1], ids.season[1], ids.episode[1],
                                 status["_get_directors"])
        rel == get_episode_info(ids.show_id[1], ids.season[1], ids.episode[1],
                                status["_get_release_date"])
    IN  IF find.raised
        THEN [exc |-> "FailedAPIRequest", calls |-> <<find.response>>, obj |-> None]
        ELSE IF ~Truthy(ids.tmdb_id)
        THEN [exc |-> "none", calls |-> <<find.response>>, obj |-> ids @@ EmptyState(FALSE)]
        ELSE IF info.raised
        THEN [exc |-> "FailedAPIRequest", calls |-> <<find.response, info.response>>,
              obj |-> None]
        ELSE IF dirs.raised
        THEN [exc |-> "FailedAPIRequest",
              calls |-> <<find.response, info.response, dirs.response>>, obj |-> None]
        ELSE IF rel.raised
        THEN [exc |-> "FailedAPIRequest",
              calls |-> <<find.response, info.response, dirs.response, rel.response>>,
              obj |-> None]
        ELSE IF "air_date" \notin DOMAIN rel.response.json
        THEN [exc |-> "KeyError",
              calls |-> <<find.response, info.response, dirs.response, rel.response>>,
              obj |-> None]
        ELSE IF Len(content_info.episode_run_time) = 0
        THEN [exc |-> "ZeroDivisionError",
              calls |-> <<find.response, info.response, dirs.response, rel.response>>,
              obj |-> None]
        ELSE [exc |-> "none",
              calls |-> <<find.response, info.response, dirs.response, rel.response>>,
              obj |-> ids @@
                      [title |-> Some(content_info.original_name),
                       genres |-> Some(_get_genres(content_info)),
                       is_movie |-> FALSE,
                       is_series |-> TRUE,
                       actors |-> Some(_get_actors(content_info)),
                       directors |-> Some(DirectorsOf(dirs.response.json)),
                       production_companies |-> Some(_get_production_companies(content_info)),
                       release_date |-> Some(ParseDate(rel.response.json.air_date)),
                       runtime |-> Some(SeriesEpisode_get_runtime(content_info))]]

\* WatchedContent dated by the release of the content, not by the day it was watched.
WatchedContent_release_date(content, platform, date, rating) ==
    [content |-> content, platform |-> platform, date |-> content.release_date[1],
     rating |-> rating]

\* WatchedContent(content, platform, date, rating)
WatchedContent(content, platform, date, rating) ==
    [content |-> content, platform |-> platform, date |-> date, rating |-> rating]

\* ------------------------------------------------------------------ reports
\* The loops over watched_content below are written
\*     CHOOSE r \in { Loop(s, Tail(watched)) : s \in {Body(acc, Head(watched))} } : TRUE
\* which is Loop(Body(acc, Head(watched)), Tail(watched)) with the body of the
\* iteration evaluated to a value before the loop goes on.  (An operator argument
\* is otherwise evaluated where it is first used, and the evaluation would nest
\* as deep as the collection has list entries.)

\* The attribute of the Content of a WatchedContent (a list, or the runtime).
Field(wc, field) == wc.content[field][1]

\* dict: position of a key among the items, 0 when the key is not in the dict.
IndexOf(d, k) ==
    IF \E i \in 1..Len(d) : d[i][1] = k
    THEN CHOOSE i \in 1..Len(d) : d[i][1] = k
    ELSE 0

\* if k not in d: d[k] = 0
\* d[k] += x
Accumulate(d, k, x) ==
    LET d0 == IF IndexOf(d, k) = 0 THEN Append(d, <<k, 0>>) ELSE d
        i == IndexOf(d0, k)
    IN  [d0 EXCEPT ![i] = <<k, d0[i][2] + x>>]

\* for k in ks: d[k] += x
RECURSIVE AccumulateAll(_, _, _)
AccumulateAll(d, ks, x) ==
    IF ks = <<>> THEN d ELSE AccumulateAll(Accumulate(d, Head(ks), x), Tail(ks), x)

\* Order of two scores: integers, and exact quotients <<numerator, denominator>>.
LessInt(a, b) == a < b
LessFloat(a, b) == a[1] * b[2] < b[1] * a[2]

\* The pairs <<i, j>> of items of a dict with the score of item i below that of item j.
BelowInt(scores) ==
    {p \in (1..Len(scores)) \X (1..Len(scores)) : LessInt(scores[p[1]][2], scores[p[2]][2])}
BelowFloat(scores) ==
    {p \in (1..Len(scores)) \X (1..Len(scores)) : LessFloat(scores[p[1]][2], scores[p[2]][2])}

\* heapq.nlargest(n, scores, key = scores.get), as the items <<x, scores[x]>>:
\* sorted(scores, key = scores.get, reverse = True)[:n], a stable sort.  below is
\* the order of the scores.
nlargest(n, scores, below) ==
    LET N == Len(scores)
        Before(i, j) == <<j, i>> \in below \/ (<<i, j>> \notin below /\ i < j)
        rank(i) == Cardinality({j \in 1..N : Before(j, i)}) + 1
        sorted == [r \in 1..N |-> scores[CHOOSE i \in 1..N : rank(i) = r]]
    IN  Take(sorted, n)

\* The first loop of a get_most_watched_* function: runtime summed by key.
RECURSIVE WatchedScores(_, _, _)
WatchedScores(scores, watched, field) ==
    IF watched = <<>> THEN scores
    ELSE CHOOSE r \in { WatchedScores(s, Tail(watched), field) :
                          s \in {AccumulateAll(scores, Field(Head(watched), field),
                                               Field(Head(watched), "runtime"))} } : TRUE

\* The first loop of a get_most_liked_* function: the dicts ratings and amount_watched.
RECURSIVE LikedSums(_, _, _)
LikedSums(sums, watched, field) ==
    IF watched = <<>> THEN sums
    ELSE CHOOSE r \in { LikedSums(s, Tail(watched), field) :
                          s \in {[ratings |->
                                     AccumulateAll(sums.ratings, Field(Head(watched), field),
                                                   Head(watched).rating),
                                  amount_watched |->
                                     AccumulateAll(sums.amount_watched,
                                                   Field(Head(watched), field), 1)]} } : TRUE

\* LikedScores without the threshold test.
LikedScores_unfiltered(sums, threshold) ==
    [i \in 1..Len(sums.ratings) |->
        <<sums.ratings[i][1],
          <<sums.ratings[i][2],
            sums.amount_watched[IndexOf(sums.amount_watched, sums.ratings[i][1])][2]>> >>]

\* The second loop of a get_most_liked_* function: the dict scores.
LikedScores(sums, threshold) ==
    LET Kept(item) == ~(sums.amount_watched[IndexOf(sums.amount_watched, item[1])][2]
                        < threshold)
        kept == SelectSeq(sums.ratings, Kept)
    IN  [i \in 1..Len(kept) |->
            <<kept[i][1],
              <<kept[i][2], sums.amount_watched[IndexOf(sums.amount_watched, kept[i][1])][2]>> >>]

\* MostWatched without the ranking: the first TOP_N keys in dict order.
MostWatched_unranked(watched, field) ==
    Take(WatchedScores(<<>>, watched, field), TOP_N)

MostWatched(watched, field) ==
    LET scores == WatchedScores(<<>>, watched, field)
    IN  nlargest(TOP_N, scores, BelowInt(scores))

MostLiked(watched, field, threshold) ==
    LET scores == LikedScores(LikedSums([ratings |-> <<>>, amount_watched |-> <<>>],
                                        watched, field),
                              threshold)
    IN  nlargest(TOP_N, scores, BelowFloat(scores))

get_most_watched_genres(watched) == MostWatched(watched, "genres")
get_most_liked_genres(watched) == MostLiked(watched, "genres", MIN_THRESHOLD)
get_most_watched_actors(watched) == MostWatched(watched, "actors")
\* get_most_liked_actors with the threshold of the directors.
get_most_liked_actors_directors(watched) ==
    MostLiked(watched, "actors", MIN_THRESHOLD_FOR_DIRECTORS)

get_most_liked_actors(watched) == MostLiked(watched, "actors", MIN_THRESHOLD)
get_most_watched_production_companies(watched) == MostWatched(watched, "production_companies")
get_most_liked_production_companies(watched) ==
    MostLiked(watched, "production_companies", MIN_THRESHOLD)
get_most_watched_directors(watched) == MostWatched(watched, "directors")
get_most_liked_directors(watched) == MostLiked(watched, "directors", MIN_THRESHOLD_FOR_DIRECTORS)

\* Count with the episode's minutes counted as one.
Count_one(n, w) ==
    IF w.content.is_movie
    THEN [n EXCEPT !.movie_counter = @ + 1, !.movie_minutes = @ + Field(w, "runtime")]
    ELSE [n EXCEPT !.series_counter = @ + 1, !.series_minutes = @ + 1]

\* The body of the loop of get_amount_of_movies_and_series_watched.
Count(n, w) ==
    IF w.content.is_movie
    THEN [n EXCEPT !.movie_counter = @ + 1, !.movie_minutes = @ + Field(w, "runtime")]
    ELSE [n EXCEPT !.series_counter = @ + 1, !.series_minutes = @ + Field(w, "runtime")]

\* The loop of get_amount_of_movies_and_series_watched.
RECURSIVE Counters(_, _)
Counters(n, watched) ==
    IF watched = <<>> THEN n
    ELSE CHOOSE r \in { Counters(s, Tail(watched)) : s \in {Count(n, Head(watched))} } : TRUE

get_amount_of_movies_and_series_watched(watched) ==
    Counters([movie_counter |-> 0, movie_minutes |-> 0,
              series_counter |-> 0, series_minutes |-> 0], watched)

RECURSIVE PlatformCounter(_, _)
PlatformCounter(counter, watched) ==
    IF watched = <<>> THEN counter
    ELSE CHOOSE r \in { PlatformCounter(s, Tail(watched)) :
                          s \in {Accumulate(counter, Head(watched).platform,
                                            Field(Head(watched), "runtime"))} } : TRUE

get_platform_usage(watched) == PlatformCounter(<<>>, watched)

\* calendar.month_name[1..12] and calendar.day_name[0..6]
month_name == <<"January", "February", "March", "April", "May", "June", "July", "August",
                "September", "October", "November", "December">>
day_name == <<"Monday", "Tuesday", "Wednesday", "Thursday", "Friday", "Saturday", "Sunday">>

\* date.weekday(): (date.toordinal() + 6) % 7 in the proleptic Gregorian calendar.
IsLeap(year) == year % 4 = 0 /\ (year % 100 # 0 \/ year % 400 = 0)
DaysBeforeYear(year) ==
    (year - 1) * 365 + ((year - 1) \div 4) - ((year - 1) \div 100) + ((year - 1) \div 400)
DaysBeforeMonth(year, month) ==
    <<0, 31, 59, 90, 120, 151, 181, 212, 243, 273, 304, 334>>[month]
    + (IF month > 2 /\ IsLeap(year) THEN 1 ELSE 0)
weekday(date) ==
    (DaysBeforeYear(date.year) + DaysBeforeMonth(date.year, date.month) + date.day + 6) % 7

\* The dicts months and weekday as get_activity_by_month_and_day creates them.
months0 == [i \in 1..12 |-> <<month_name[i], 0>>]
weekday0 == << <<"Sunday", 0>>, <<"Monday", 0>>, <<"Tuesday", 0>>, <<"Wednesday", 0>>,
               <<"Thursday", 0>>, <<"Friday", 0>>, <<"Saturday", 0>> >>

\* ActivityOf with date.isoweekday() (Monday is 1) as the index of day_name.
ActivityOf_isoweekday(acc, w) ==
    [months |-> Accumulate(acc.months, month_name[w.date.month], Field(w, "runtime")),
     weekday |-> Accumulate(acc.weekday, day_name[((weekday(w.date) + 1) % 7) + 1],
                            Field(w, "runtime")),
     days |-> Accumulate(acc.days, w.date, Field(w, "runtime"))]

\* The body of the loop of get_activity_by_month_and_day.
ActivityOf(acc, w) ==
    [months |-> Accumulate(acc.months, month_name[w.date.month], Field(w, "runtime")),
     weekday |-> Accumulate(acc.weekday, day_name[weekday(w.date) + 1], Field(w, "runtime")),
     days |-> Accumulate(acc.days, w.date, Field(w, "runtime"))]

\* The loop of get_activity_by_month_and_day.
RECURSIVE Activity(_, _)
Activity(acc, watched) ==
    IF watched = <<>> THEN acc
    ELSE CHOOSE r \in { Activity(s, Tail(watched)) :
                          s \in {ActivityOf(acc, Head(watched))} } : TRUE

\* max_item keeping the last of the items no other exceeds.
max_item_last(days) ==
    days[CHOOSE i \in 1..Len(days) :
            /\ \A j \in 1..Len(days) : ~(days[i][2] < days[j][2])
            /\ \A j \in (i + 1)..Len(days) : days[j][2] < days[i][2]][1]

\* max(days.items(), key = operator.itemgetter(1))[0]: the first item no other exceeds.
max_item(days) ==
    days[CHOOSE i \in 1..Len(days) :
            /\ \A j \in 1..Len(days) : ~(days[i][2] < days[j][2])
            /\ \A j \in 1..(i - 1) : days[j][2] < days[i][2]][1]

\* What get_activity_by_month_and_day prints, and the ValueError of max() of no items.
get_activity_by_month_and_day(watched) ==
    LET acc == Activity([months |-> months0, weekday |-> weekday0, days |-> <<>>], watched)
    IN  [months |-> acc.months,
         weekday |-> acc.weekday,
         days |-> acc.days,
         max_day |-> IF acc.days = <<>> THEN None ELSE Some(max_item(acc.days)),
         exc |-> IF acc.days = <<>> THEN "ValueError" ELSE "none"]

\* --------------------------------------------------------------------- main
\* The report functions in the order main calls them.
Reports == <<"get_most_watched_genres", "get_most_liked_genres",
             "get_amount_of_movies_and_series_watched", "get_platform_usage",
             "get_most_watched_actors", "get_most_liked_actors",
             "get_most_watched_production_companies", "get_most_liked_production_companies",
             "get_most_watched_directors", "get_most_liked_directors",
             "get_activity_by_month_and_day">>

\* The statement of main after report function name has returned.
After(name) ==
    LET i == CHOOSE k \in 1..Len(Reports) : Reports[k] = name
    IN  IF i = Len(Reports) THEN "done" ELSE Reports[i + 1]

Init ==
    /\ watching_habits_raw \in Logs
    /\ idx = 0
    /\ c = None
    /\ calls = <<>>
    /\ watched_content = <<>>
    /\ diagnostics = <<>>
    /\ out = <<>>
    /\ pc = "build"
    /\ exc = "none"

\* One iteration of the for loop of main, the construction of the Content included.
BuildWatchedContent ==
    /\ pc = "build"
    /\ idx < Len(watching_habits_raw)
    /\ \E status \in [CallSites -> StatusCodes] :
        LET content == watching_habits_raw[idx + 1]
            built == IF content.MovieOrSeries = "Movie"
                     THEN Movie(content.IMDB_ID, status)
                     ELSE SeriesEpisode(content.IMDB_ID, status)
        IN  /\ idx' = idx + 1
            /\ calls' = built.calls
            /\ IF built.exc # "none"
               THEN /\ pc' = "aborted"
                    /\ exc' = built.exc
                    /\ UNCHANGED <<c, watched_content, diagnostics>>
               ELSE /\ c' = built.obj
                    /\ UNCHANGED <<pc, exc>>
                    /\ IF built.obj.tmdb_id = None
                       THEN /\ diagnostics' = Append(diagnostics,
                                                     <<content.Name, content.IMDB_ID>>)
                            /\ UNCHANGED watched_content
                       ELSE /\ watched_content' =
                                   Append(watched_content,
                                          WatchedContent(built.obj, content.Platform,
                                                         datetime(content.Date[3],
                                                                  content.Date[1],
                                                                  content.Date[2]),
                                                         content.Rating))
                            /\ UNCHANGED diagnostics
    /\ UNCHANGED <<watching_habits_raw, out>>

\* A report function that main calls once the for loop has consumed every record.
Report(name, printed) ==
    /\ \/ pc = name
       \/ name = Reports[1] /\ pc = "build" /\ idx = Len(watching_habits_raw)
    /\ out' = (name :> printed) @@ out
    /\ pc' = After(name)
    /\ UNCHANGED <<watching_habits_raw, idx, c, calls, watched_content, diagnostics, exc>>

MostWatchedGenres ==
    Report("get_most_watched_genres", get_most_watched_genres(watched_content))
MostLikedGenres ==
    Report("get_most_liked_genres", get_most_liked_genres(watched_content))
AmountOfMoviesAndSeries ==
    Report("get_amount_of_movies_and_series_watched",
           get_amount_of_movies_and_series_watched(watched_content))
PlatformUsage ==
    Report("get_platform_usage", get_platform_usage(watched_content))
MostWatchedActors ==
    Report("get_most_watched_actors", get_most_watched_actors(watched_content))
MostLikedActors ==
    Report("get_most_liked_actors", get_most_liked_actors(watched_content))
MostWatchedProductionCompanies ==
    Report("get_most_watched_production_companies",
           get_most_watched_production_companies(watched_content))
MostLikedProductionCompanies ==
    Report("get_most_liked_production_companies",
           get_most_liked_production_companies(watched_content))
MostWatchedDirectors ==
    Report("get_most_watched_directors", get_most_watched_directors(watched_content))
MostLikedDirectors ==
    Report("get_most_liked_directors", get_most_liked_directors(watched_content))

\* The last call of main: the buckets are printed before max() is evaluated, so
\* they are printed also when max() raises.
ActivityByMonthAndDay ==
    LET printed == get_activity_by_month_and_day(watched_content)
    IN  /\ pc = "get_activity_by_month_and_day"
        /\ out' = ("get_activity_by_month_and_day" :> printed) @@ out
        /\ pc' = IF printed.exc = "none" THEN "done" ELSE "aborted"
        /\ exc' = printed.exc
        /\ UNCHANGED <<watching_habits_raw, idx, c, calls, watched_content, diagnostics>>

Next ==
    \/ BuildWatchedContent
    \/ MostWatchedGenres
    \/ MostLikedGenres
    \/ AmountOfMoviesAndSeries
    \/ PlatformUsage
    \/ MostWatchedActors
    \/ MostLikedActors
    \/ MostWatchedProductionCompanies
    \/ MostLikedProductionCompanies
    \/ MostWatchedDirectors
    \/ MostLikedDirectors
    \/ ActivityByMonthAndDay

Spec == Init /\ [][Next]_vars

\* main started on a log of the further kinds of records.
InitWide ==
    /\ watching_habits_raw \in WideLogs
    /\ idx = 0
    /\ c = None
    /\ calls = <<>>
    /\ watched_content = <<>>
    /\ diagnostics = <<>>
    /\ out = <<>>
    /\ pc = "build"
    /\ exc = "none"

SpecWide == InitWide /\ [][Next]_vars

\* ------------------------------------------------------------------- claims
\* The collection as the claims speak of it: the keys an event lists in a field,
\* how often it lists a key, and sums over the events.
Runtime(w) == Field(w, "runtime")
KeysOf(field) ==
    UNION { {Field(watched_content[e], field)[p] : p \in 1..Len(Field(watched_content[e], field))}
            : e \in 1..Len(watched_content) }
Occurrences(w, field, k) ==
    Cardinality({p \in 1..Len(Field(w, field)) : Field(w, field)[p] = k})
OccurrenceCount(field, k) ==
    SumSeq([e \in 1..Len(watched_content) |-> Occurrences(watched_content[e], field, k)])
RuntimeTotal(field, k) ==
    SumSeq([e \in 1..Len(watched_content) |->
               Runtime(watched_content[e]) * Occurrences(watched_content[e], field, k)])
RatingTotal(field, k) ==
    SumSeq([e \in 1..Len(watched_content) |->
               watched_content[e].rating * Occurrences(watched_content[e], field, k)])
TotalRuntime == SumSeq([e \in 1..Len(watched_content) |-> Runtime(watched_content[e])])
Listed(rep) == {rep[i][1] : i \in 1..Len(rep)}

\* The report function name has just returned.  (What it printed and the
\* collection stay as they are from then on.)
JustPrinted(name) ==
    /\ name \in DOMAIN out
    /\ name = Reports[Len(Reports)] \/ pc = After(name)
Min(a, b) == IF a < b THEN a ELSE b

SumRanking(name, field) ==
    JustPrinted(name) =>
        LET rep == out[name]
            keys == KeysOf(field)
        IN  /\ \A i \in 1..Len(rep) :
                /\ rep[i][1] \in keys
                /\ rep[i][2] = RuntimeTotal(field, rep[i][1])
            /\ \A i, j \in 1..Len(rep) : i < j => rep[i][2] >= rep[j][2]
            /\ Len(rep) = Min(TOP_N, Cardinality(keys))
            /\ \A k \in keys \ Listed(rep) :
                \A i \in 1..Len(rep) : RuntimeTotal(field, k) <= rep[i][2]

\* C1: each of the four most-watched reports lists keys of the relevant field of
\* the events, each with the runtime summed over the key's occurrences, in
\* non-increasing order of value; it lists min(20, number of distinct keys) items,
\* and no key left out has a total strictly greater than a listed one.
C1_SumRanking ==
    /\ SumRanking("get_most_watched_genres", "genres")
    /\ SumRanking("get_most_watched_actors", "actors")
    /\ SumRanking("get_most_watched_directors", "directors")
    /\ SumRanking("get_most_watched_production_companies", "production_companies")

\* All four reports are printed, and the actors report is cut to 20 of more keys.
C1_Witness ==
    /\ "get_most_watched_directors" \in DOMAIN out
    /\ Len(out["get_most_watched_actors"]) = TOP_N
    /\ Cardinality(KeysOf("actors")) > TOP_N
    /\ Len(out["get_most_watched_genres"]) = 3
    /\ \E i \in 1..TOP_N : out["get_most_watched_actors"][i][2] > Runtime(watched_content[1])

AverageRanking(name, field, threshold) ==
    JustPrinted(name) =>
        LET rep == out[name]
        IN  /\ \A k \in KeysOf(field) :
                OccurrenceCount(field, k) < threshold => k \notin Listed(rep)
            /\ \A i \in 1..Len(rep) :
                /\ OccurrenceCount(field, rep[i][1]) >= threshold
                /\ rep[i][2][2] > 0
                /\ rep[i][2][1] * OccurrenceCount(field, rep[i][1])
                       = RatingTotal(field, rep[i][1]) * rep[i][2][2]

\* C2: a best-rated report lists no key whose occurrence count is below the
\* threshold (5 for genres, actors and production companies, 2 for directors),
\* whatever its average; each key it lists has at least that count and the value
\* rating sum / count.
C2_AverageRanking ==
    /\ AverageRanking("get_most_liked_genres", "genres", 5)
    /\ AverageRanking("get_most_liked_actors", "actors", 5)
    /\ AverageRanking("get_most_liked_production_companies", "production_companies", 5)
    /\ AverageRanking("get_most_liked_directors", "directors", 2)

\* The four reports are printed and list keys, while an actor below the threshold
\* with a higher average than a listed actor is left out.
C2_Witness ==
    /\ "get_most_liked_directors" \in DOMAIN out
    /\ out["get_most_liked_genres"] # <<>>
    /\ out["get_most_liked_production_companies"] # <<>>
    /\ out["get_most_liked_directors"] # <<>>
    /\ LET rep == out["get_most_liked_actors"]
       IN  \E i \in 1..Len(rep) : \E k \in KeysOf("actors") \ Listed(rep) :
              RatingTotal("actors", k) * rep[i][2][2]
                  > rep[i][2][1] * OccurrenceCount("actors", k)

\* The record the for loop took last, and what the catalog holds for it.
LastRecord == watching_habits_raw[idx]
ResultsOf(record) ==
    Catalog["/find/" \o record.IMDB_ID]
           [IF record.MovieOrSeries = "Movie" THEN "movie_results" ELSE "tv_episode_results"]
ZeroMatches(record) == Len(ResultsOf(record)) = 0

\* The run ended with an exception raised in the for loop of main.
BuildAborted == pc = "aborted" /\ out = <<>>

\* C3: a record whose external id has no catalog match gives no Watch Event and
\* one diagnostic, and the run does not abort: once such a record has been
\* skipped the run ends, if it ends early, only by a failing catalog call - never
\* because the collection holds too little for a report.
C3_ZeroMatchDoesNotAbort ==
    /\ (idx >= 1 /\ ~BuildAborted /\ ZeroMatches(LastRecord)) =>
           diagnostics[Len(diagnostics)] = <<LastRecord.Name, LastRecord.IMDB_ID>>
    /\ ~BuildAborted => idx = Len(watched_content) + Len(diagnostics)
    /\ (diagnostics # <<>> /\ pc = "aborted") => exc = "FailedAPIRequest"

\* C4: a non-success status of a catalog call made for a record makes the builder
\* skip that record with a diagnostic, and the run goes on.
C4_FailedRequestSkipsRecord ==
    (idx >= 1 /\ \E i \in 1..Len(calls) : calls[i].status_code # STATUS_CODE_OK) =>
        /\ ~BuildAborted
        /\ exc # "FailedAPIRequest"
        /\ diagnostics # <<>>
        /\ diagnostics[Len(diagnostics)] = <<LastRecord.Name, LastRecord.IMDB_ID>>

\* C5: when the resolve-by-external-id call succeeds with zero matches of the
\* record's kind, the construction of the Movie or SeriesEpisode does not raise,
\* its tmdb_id is None, and that call is the only catalog call made for it.
C5_NotFound ==
    (idx >= 1 /\ calls[1].status_code = STATUS_CODE_OK /\ ZeroMatches(LastRecord)) =>
        /\ ~BuildAborted
        /\ c.tmdb_id = None
        /\ Len(calls) = 1
        /\ calls[1].url = "/find/" \o LastRecord.IMDB_ID

\* An unresolved Movie has been built earlier, and the Content built last is an
\* unresolved SeriesEpisode.
C5_Witness ==
    /\ idx >= 2
    /\ ~BuildAborted
    /\ ZeroMatches(LastRecord)
    /\ c.is_series
    /\ c.tmdb_id = None
    /\ \E i \in 1..(idx - 1) :
          /\ watching_habits_raw[i].MovieOrSeries = "Movie"
          /\ ZeroMatches(watching_habits_raw[i])
          /\ \E d \in 1..Len(diagnostics) :
                diagnostics[d] = <<watching_habits_raw[i].Name, watching_habits_raw[i].IMDB_ID>>

\* C6: a Content whose tmdb_id is None has every other field of the Content
\* present and None or empty: title, genres, actors, directors,
\* production_companies, release_date and runtime, and for a SeriesEpisode
\* show_id, season and episode as well.
C6_UnresolvedIsEmpty ==
    (DOMAIN c # {} /\ c.tmdb_id = None) =>
        /\ \A f \in {"title", "release_date", "runtime"} : f \in DOMAIN c /\ c[f] = None
        /\ \A f \in {"genres", "actors", "directors", "production_companies"} :
              f \in DOMAIN c /\ c[f] \in {None, Some(<<>>)}
        /\ c.is_series =>
              \A f \in {"show_id", "season", "episode"} : f \in DOMAIN c /\ c[f] = None

\* C7: the movie and series counters add up to the number of events, and the
\* movie and series minutes to the runtime of all events.
C7_CategoryTotals ==
    JustPrinted("get_amount_of_movies_and_series_watched") =>
        LET n == out["get_amount_of_movies_and_series_watched"]
        IN  /\ n.movie_counter + n.series_counter = Len(watched_content)
            /\ n.movie_minutes + n.series_minutes = TotalRuntime

\* Movies and episodes have both been counted.
C7_Witness ==
    /\ JustPrinted("get_amount_of_movies_and_series_watched")
    /\ out["get_amount_of_movies_and_series_watched"].movie_counter >= 2
    /\ out["get_amount_of_movies_and_series_watched"].series_counter >= 2
    /\ diagnostics # <<>>

MonthTotal(m) ==
    SumSeq([e \in 1..Len(watched_content) |->
               IF watched_content[e].date.month = m THEN Runtime(watched_content[e]) ELSE 0])
WeekdayTotal(name) ==
    SumSeq([e \in 1..Len(watched_content) |->
               IF day_name[weekday(watched_content[e].date) + 1] = name
               THEN Runtime(watched_content[e]) ELSE 0])
Values(d) == [i \in 1..Len(d) |-> d[i][2]]

\* C8: for every collection, the empty one included, the activity report prints
\* the 12 month buckets and the 7 weekday buckets, each holding the runtime of the
\* events of that month or weekday; the months, and the weekdays, add up to the
\* runtime of the collection.
C8_CalendarBuckets ==
    JustPrinted("get_activity_by_month_and_day") =>
        LET rep == out["get_activity_by_month_and_day"]
        IN  /\ Len(rep.months) = 12
            /\ \A m \in 1..12 : rep.months[m] = <<month_name[m], MonthTotal(m)>>
            /\ Len(rep.weekday) = 7
            /\ Listed(rep.weekday) = {day_name[i] : i \in 1..7}
            /\ \A i \in 1..7 : rep.weekday[i][2] = WeekdayTotal(rep.weekday[i][1])
            /\ SumSeq(Values(rep.months)) = TotalRuntime
            /\ SumSeq(Values(rep.weekday)) = TotalRuntime

\* The report has filled two months and two weekdays, one of them twice.
C8_Witness ==
    /\ JustPrinted("get_activity_by_month_and_day")
    /\ LET rep == out["get_activity_by_month_and_day"]
       IN  /\ Cardinality({m \in 1..12 : rep.months[m][2] > 0}) = 2
           /\ Cardinality({i \in 1..7 : rep.weekday[i][2] > 0}) = 2
           /\ \E i \in 1..7 : \E e \in 1..Len(watched_content) :
                 rep.weekday[i][2] = 2 * Runtime(watched_content[e])

DateTotal(date) ==
    SumSeq([e \in 1..Len(watched_content) |->
               IF watched_content[e].date = date THEN Runtime(watched_content[e]) ELSE 0])
MaximalDays(days) == {i \in 1..Len(days) : \A j \in 1..Len(days) : days[j][2] <= days[i][2]}

\* C9 as claimed: each date's total is the runtime of the events of that date, the
\* date reported has the greatest total, and of several dates with the greatest
\* total the one the scan of the totals meets last is reported.
C9_LastMaximalDate ==
    JustPrinted("get_activity_by_month_and_day") =>
        LET rep == out["get_activity_by_month_and_day"]
        IN  /\ \A i \in 1..Len(rep.days) : rep.days[i][2] = DateTotal(rep.days[i][1])
            /\ rep.max_day # None =>
                  \E i \in MaximalDays(rep.days) :
                      /\ rep.max_day = Some(rep.days[i][1])
                      /\ \A j \in MaximalDays(rep.days) : j <= i

\* C9 as amended: each date's total is the runtime of the events of that date, the
\* date reported has the greatest total, and of several dates with the greatest
\* total the one the scan of the totals meets first is reported.
C9_FirstMaximalDate ==
    JustPrinted("get_activity_by_month_and_day") =>
        LET rep == out["get_activity_by_month_and_day"]
        IN  /\ \A i \in 1..Len(rep.days) : rep.days[i][2] = DateTotal(rep.days[i][1])
            /\ Listed(rep.days) = {watched_content[e].date : e \in 1..Len(watched_content)}
            /\ rep.max_day # None =>
                  \E i \in MaximalDays(rep.days) :
                      /\ rep.max_day = Some(rep.days[i][1])
                      /\ \A j \in MaximalDays(rep.days) : i <= j

\* Two dates share the greatest total, one of them by two events of that date.
C9_Witness ==
    /\ JustPrinted("get_activity_by_month_and_day")
    /\ LET rep == out["get_activity_by_month_and_day"]
       IN  /\ Cardinality(MaximalDays(rep.days)) = 2
           /\ rep.max_day = Some(rep.days[1][1])
           /\ \E e \in 1..Len(watched_content) : rep.days[1][2] = 2 * Runtime(watched_content[e])

EventsWith(field, k) ==
    {e \in 1..Len(watched_content) : Occurrences(watched_content[e], field, k) > 0}
RuntimeOfEvents(E) ==
    SumSeq([e \in 1..Len(watched_content) |->
               IF e \in E THEN Runtime(watched_content[e]) ELSE 0])

\* C10 as claimed: an actor of fewer than 5 events is not in the best-rated-actors
\* report and is in the most-watched-actors report, with the summed runtime of the
\* events the actor appears in.
C10_RareActor ==
    JustPrinted("get_most_liked_actors") =>
        \A a \in KeysOf("actors") :
            Cardinality(EventsWith("actors", a)) < MIN_THRESHOLD =>
                /\ a \notin Listed(out["get_most_liked_actors"])
                /\ \E i \in 1..Len(out["get_most_watched_actors"]) :
                      out["get_most_watched_actors"][i]
                          = <<a, RuntimeOfEvents(EventsWith("actors", a))>>

\* C10 as amended: an actor with fewer than 5 cast entries over the events is not
\* in the best-rated-actors report; the actor is in the most-watched-actors
\* report, with the runtime summed over those cast entries, whenever fewer than 20
\* other actors have a total at least as great.
C10_RareActorAmongTop ==
    JustPrinted("get_most_liked_actors") =>
        LET totals == {<<a, RuntimeTotal("actors", a)>> : a \in KeysOf("actors")}
            liked == Listed(out["get_most_liked_actors"])
            watched == {out["get_most_watched_actors"][i] :
                           i \in 1..Len(out["get_most_watched_actors"])}
        IN  \A t \in totals :
                OccurrenceCount("actors", t[1]) < MIN_THRESHOLD =>
                    /\ t[1] \notin liked
                    /\ Cardinality({u \in totals : u[1] # t[1] /\ u[2] >= t[2]}) < TOP_N =>
                          t \in watched

\* The best-rated report lists an actor, while an actor of fewer than 5 entries
\* and a higher average is listed among the most watched only, and another such
\* actor is cut from the most watched.
C10_Witness ==
    /\ JustPrinted("get_most_liked_actors")
    /\ out["get_most_liked_actors"] # <<>>
    /\ \E a \in Listed(out["get_most_watched_actors"]) \ Listed(out["get_most_liked_actors"]) :
          /\ OccurrenceCount("actors", a) = MIN_THRESHOLD - 1
          /\ RatingTotal("actors", a) * out["get_most_liked_actors"][1][2][2]
                 > out["get_most_liked_actors"][1][2][1] * OccurrenceCount("actors", a)
    /\ \E a \in KeysOf("actors") : a \notin Listed(out["get_most_watched_actors"])

\* What the catalog holds for a record that main resolves as an episode: the
\* series detail and the episode detail of its first match.
SeriesDetailOf(record) == Catalog["/tv/" \o ToString(ResultsOf(record)[1].show_id)]
EpisodeDetailOf(record) ==
    Catalog["/tv/" \o ToString(ResultsOf(record)[1].show_id)
            \o "/season/" \o ToString(ResultsOf(record)[1].season_number)
            \o "/episode/" \o ToString(ResultsOf(record)[1].episode_number)]

\* The record is a matched episode whose series detail declares no episode run
\* time, or whose episode detail has no air date.
DataFault(record) ==
    /\ record.MovieOrSeries # "Movie"
    /\ ~ZeroMatches(record)
    /\ \/ SeriesDetailOf(record).episode_run_time = <<>>
       \/ "air_date" \notin DOMAIN EpisodeDetailOf(record)

AllCallsSucceeded == \A i \in 1..Len(calls) : calls[i].status_code = STATUS_CODE_OK

\* C11: when every catalog call made for a matched episode succeeds and the
\* series detail carries an empty episode run time list, or the episode detail no
\* air date, only the resolution of that record fails: the record is skipped with
\* a diagnostic, no exception ends the run, and the loop goes on.
C11_DataFaultFailsOneResolution ==
    (idx >= 1 /\ DataFault(LastRecord) /\ Len(calls) = 4 /\ AllCallsSucceeded) =>
        /\ pc # "aborted"
        /\ exc = "none"
        /\ diagnostics # <<>>
        /\ diagnostics[Len(diagnostics)] = <<LastRecord.Name, LastRecord.IMDB_ID>>

\* The records the for loop has consumed so far, and those of them whose
\* external id the catalog matches.
Consumed == SubSeq(watching_habits_raw, 1, idx)
Resolves(record) == ~ZeroMatches(record)

\* C12: as long as no exception has ended the loop, the collection holds one
\* event per consumed record whose external id resolved, in the order of the
\* records, each with the record's platform, date and rating and the catalog id of
\* the record's match; the Content is a Movie exactly when the kind of the record
\* is "Movie" and a SeriesEpisode otherwise; and a report has printed only when
\* the loop has consumed every record.
C12_OneEventPerResolvedRecord ==
    /\ ~BuildAborted =>
           LET resolved == SelectSeq(Consumed, Resolves)
           IN  /\ Len(watched_content) = Len(resolved)
               /\ \A e \in 1..Len(resolved) :
                     /\ watched_content[e].platform = resolved[e].Platform
                     /\ watched_content[e].rating = resolved[e].Rating
                     /\ watched_content[e].date = [month |-> resolved[e].Date[1],
                                                   day |-> resolved[e].Date[2],
                                                   year |-> resolved[e].Date[3]]
                     /\ watched_content[e].content.tmdb_id
                            = Some(ToString(ResultsOf(resolved[e])[1].id))
                     /\ watched_content[e].content.is_movie
                            = (resolved[e].MovieOrSeries = "Movie")
                     /\ watched_content[e].content.is_series
                            = (resolved[e].MovieOrSeries # "Movie")
    /\ DOMAIN out # {} => idx = Len(watching_habits_raw)

\* The reports run on two events built from three records: a Movie, then a record
\* without a match, then a record of kind "movie" built as a SeriesEpisode.
C12_Witness ==
    /\ DOMAIN out # {}
    /\ idx = 3
    /\ Len(watched_content) = 2
    /\ Len(diagnostics) = 1
    /\ watching_habits_raw[1].MovieOrSeries = "Movie"
    /\ watched_content[1].content.is_movie
    /\ ZeroMatches(watching_habits_raw[2])
    /\ watching_habits_raw[3].MovieOrSeries = "movie"
    /\ watched_content[2].content.is_series
    /\ watched_content[2].platform = "Prime"

\* What the catalog holds for a record with a match: the crew its directors are
\* taken from and the cast its actors are taken from.
MovieDetailOf(record) == Catalog["/movie/" \o ToString(ResultsOf(record)[1].id)]
CrewOf(record) ==
    IF record.MovieOrSeries = "Movie"
    THEN MovieDetailOf(record).credits.crew
    ELSE EpisodeDetailOf(record).credits.crew
CastOf(record) ==
    IF record.MovieOrSeries = "Movie"
    THEN MovieDetailOf(record).credits.cast
    ELSE SeriesDetailOf(record).credits.cast
DirectorCredits(crew) == {i \in 1..Len(crew) : crew[i].job = "Director"}

\* C13: the directors of a resolved Content, Movie or SeriesEpisode, are the
\* names of the first 2 crew entries whose job is "Director", in catalog order,
\* wherever in the crew they stand; its actors are the names of the first 15
\* cast entries in catalog order.
C13_DirectorsAndActors ==
    (idx >= 1 /\ ~BuildAborted /\ Resolves(LastRecord)) =>
        LET crew == CrewOf(LastRecord)
            cast == CastOf(LastRecord)
            credits == DirectorCredits(crew)
            directors == c.directors[1]
            actors == c.actors[1]
        IN  /\ Len(directors) = Min(MAX_DIRECTORS, Cardinality(credits))
            /\ \A k \in 1..Len(directors) :
                  \E i \in credits :
                      /\ Cardinality({j \in credits : j < i}) = k - 1
                      /\ directors[k] = crew[i].name
            /\ Len(actors) = Min(MAX_CAST, Len(cast))
            /\ \A k \in 1..Len(actors) : actors[k] = cast[k].name
            /\ Len(directors) <= 2
            /\ Len(actors) <= 15

\* The Content built last is a Movie with 3 Director credits after a Producer and
\* a cast of 16, and an episode whose Director credit follows a Writer has been
\* built before it.
C13_Witness ==
    /\ idx >= 2
    /\ ~BuildAborted
    /\ Resolves(LastRecord)
    /\ c.is_movie
    /\ CrewOf(LastRecord)[1].job # "Director"
    /\ Cardinality(DirectorCredits(CrewOf(LastRecord))) = 3
    /\ c.directors = Some(<<"D1", "D2">>)
    /\ Len(CastOf(LastRecord)) = 16
    /\ Len(c.actors[1]) = MAX_CAST
    /\ \E e \in 1..Len(watched_content) :
          /\ watched_content[e].content.is_series
          /\ watched_content[e].content.directors = Some(<<"D2">>)

\* The endpoints of the catalog calls a record asks for when none of them fails.
FindEndpoint(record) == "/find/" \o record.IMDB_ID
EpisodeEndpoint(record) ==
    "/tv/" \o ToString(ResultsOf(record)[1].show_id)
    \o "/season/" \o ToString(ResultsOf(record)[1].season_number)
    \o "/episode/" \o ToString(ResultsOf(record)[1].episode_number)
ExpectedCalls(record) ==
    IF ZeroMatches(record)
    THEN << FindEndpoint(record) >>
    ELSE IF record.MovieOrSeries = "Movie"
    THEN << FindEndpoint(record), "/movie/" \o ToString(ResultsOf(record)[1].id) >>
    ELSE << FindEndpoint(record),
            "/tv/" \o ToString(ResultsOf(record)[1].show_id),
            EpisodeEndpoint(record),
            EpisodeEndpoint(record) >>
Endpoints == [i \in 1..Len(calls) |-> calls[i].url]

\* C14: the catalog calls made for a record are, in order, the resolve call and
\* then, for a matched Movie, the movie detail (2 calls), for a matched episode
\* the series detail of the captured show and twice the episode detail of the
\* captured show, season and episode (4 calls), for a record without a match
\* nothing more (1 call); a call that fails is the last one made, so the
\* resolve call comes before every detail call.
C14_CallSequence ==
    idx >= 1 =>
        /\ Len(calls) >= 1
        /\ Endpoints[1] = FindEndpoint(LastRecord)
        /\ Len(calls) <= Len(ExpectedCalls(LastRecord))
        /\ Endpoints = Take(ExpectedCalls(LastRecord), Len(calls))
        /\ AllCallsSucceeded => Endpoints = ExpectedCalls(LastRecord)
        /\ \A i \in 1..(Len(calls) - 1) : calls[i].status_code = STATUS_CODE_OK

\* The four calls of a matched episode have succeeded, the last two to the same
\* endpoint, after a Movie was built with two calls and a record without a match
\* was skipped.
C14_Witness ==
    /\ idx >= 3
    /\ Len(calls) = 4
    /\ AllCallsSucceeded
    /\ Endpoints[3] = Endpoints[4]
    /\ Endpoints[2] # Endpoints[3]
    /\ c.is_series
    /\ diagnostics # <<>>
    /\ \E e \in 1..Len(watched_content) : watched_content[e].content.is_movie
====
